---- MODULE Spec2Model ----
(***************************************************************************)
(* Model of the strudel-gen document-to-record compilers                   *)
(* (scripts/generate-*.py) and of the overlay merger                       *)
(* (scripts/merge-mini-notation-rewrites.py).                              *)
(*                                                                         *)
(* Each script is a sequential program; its state is one record variable.  *)
(* A specification per script draws the script's inputs (the files it      *)
(* reads) from bounded sets in its initial predicate and then runs the     *)
(* script's steps.  Text is modelled as sequences of one-character         *)
(* strings wherever the code inspects characters (strip, split, regular    *)
(* expression); Python dicts are modelled as sequences of <<key, value>>   *)
(* pairs with unique keys, in insertion order.                             *)
(***************************************************************************)
EXTENDS Integers, Sequences, FiniteSets, TLC

VARIABLES merger, drums, parser, compiler, yamlp, datagen

vars == <<merger, drums, parser, compiler, yamlp, datagen>>

Idle == [pc |-> "idle"]

(***************************************************************************)
(* Generic helpers                                                         *)
(***************************************************************************)

\* Sequences over S of length 0..n
SeqUpTo(S, n) == UNION {[1..k -> S] : k \in 0..n}

Range(s) == {s[i] : i \in 1..Len(s)}

(***************************************************************************)
(* Python dict: a sequence of <<key, value>> pairs, keys unique, in        *)
(* insertion order.                                                        *)
(***************************************************************************)
EmptyDict == <<>>

DictHas(d, k) == \E i \in 1..Len(d) : d[i][1] = k

DictGet(d, k, default) ==
    IF DictHas(d, k)
    THEN d[CHOOSE i \in 1..Len(d) : d[i][1] = k][2]
    ELSE default

\* d[k] = v : an existing key keeps its position, a new key is appended
DictSet(d, k, v) ==
    IF DictHas(d, k)
    THEN [i \in 1..Len(d) |-> IF d[i][1] = k THEN <<k, v>> ELSE d[i]]
    ELSE Append(d, <<k, v>>)

DictKeys(d) == {d[i][1] : i \in 1..Len(d)}

\* dict built from a sequence of pairs, later duplicates overwriting
RECURSIVE DictFromPairs(_, _)
DictFromPairs(acc, pairs) ==
    IF pairs = <<>> THEN acc
    ELSE DictFromPairs(DictSet(acc, Head(pairs)[1], Head(pairs)[2]), Tail(pairs))

\* d without key k
DictWithout(d, k) == SelectSeq(d, LAMBDA p : p[1] # k)

(***************************************************************************)
(* Text: a string is a sequence of one-character strings.                  *)
(***************************************************************************)
\* str.isspace for one character
IsSpace(c) == c \in {" ", "\t", "\r", "\n"}

\* \w of the regular expression
IsWord(c) == c \in {"a", "b", "c", "d", "e", "f", "g", "i", "m", "n", "o", "p", "s",
                    "t", "u", "x", "y", "A", "E", "M", "N", "_"}

\* str.lower for one character
LowerChar(c) ==
    CASE c = "A" -> "a" [] c = "E" -> "e" [] c = "M" -> "m" [] c = "N" -> "n"
      [] OTHER -> c

lower_Forgotten(s) == s

lower(s) == [i \in 1..Len(s) |-> LowerChar(s[i])]

RECURSIVE lstrip(_)
lstrip(s) == IF s # <<>> /\ IsSpace(Head(s)) THEN lstrip(Tail(s)) ELSE s

RECURSIVE rstrip(_)
rstrip(s) ==
    IF s # <<>> /\ IsSpace(s[Len(s)]) THEN rstrip(SubSeq(s, 1, Len(s) - 1)) ELSE s

\* str.strip()
strip(s) == lstrip(rstrip(s))

\* str.startswith
startswith(s, prefix) ==
    Len(s) >= Len(prefix) /\ SubSeq(s, 1, Len(prefix)) = prefix

\* '\n'.join(lines)
RECURSIVE join_nl(_)
join_nl(lines) ==
    IF lines = <<>> THEN <<>>
    ELSE IF Len(lines) = 1 THEN lines[1]
    ELSE lines[1] \o <<"\n">> \o join_nl(Tail(lines))

\* first index >= i of s holding no whitespace, Len(s) + 1 when there is none
RECURSIVE SkipSpaces(_, _)
SkipSpaces(s, i) ==
    IF i <= Len(s) /\ IsSpace(s[i]) THEN SkipSpaces(s, i + 1) ELSE i

\* first index >= i of s holding no word character
RECURSIVE SkipWord(_, _)
SkipWord(s, i) ==
    IF i <= Len(s) /\ IsWord(s[i]) THEN SkipWord(s, i + 1) ELSE i

(***************************************************************************)
(* Header-comment parser: parse_strudel_file of scripts/generate-idioms.py *)
(***************************************************************************)
NoMatch == [matched |-> FALSE, key |-> <<>>, value |-> <<>>]

\* re.match(r'^//\s*@(\w+):\s*(.+)$', stripped), with group(1).lower() and
\* group(2).strip().  \s* is greedy and gives characters back only when
\* (.+) would otherwise be empty.
MatchMeta(stripped) ==
    IF ~startswith(stripped, <<"/", "/">>) THEN NoMatch
    ELSE LET a == SkipSpaces(stripped, 3) IN
         IF a > Len(stripped) \/ stripped[a] # "@" THEN NoMatch
         ELSE LET b == SkipWord(stripped, a + 1) IN
              IF b = a + 1 \/ b > Len(stripped) \/ stripped[b] # ":" THEN NoMatch
              ELSE IF b = Len(stripped) THEN NoMatch
              ELSE LET c == SkipSpaces(stripped, b + 1)
                       g == IF c > Len(stripped) THEN Len(stripped) ELSE c
                   IN [matched |-> TRUE,
                       key |-> lower(SubSeq(stripped, a + 1, b - 1)),
                       value |-> strip(SubSeq(stripped, g, Len(stripped)))]

\* the header scan (lines 55-79) from 0-based index i on: the metadata dict
\* and code_start when the loop ends
RECURSIVE ScanHeader_SkipBlank(_, _, _, _)
ScanHeader_SkipBlank(lines, i, metadata, code_start) ==
    IF i >= Len(lines) THEN [metadata |-> metadata, code_start |-> code_start]
    ELSE LET stripped == strip(lines[i + 1])
             match == MatchMeta(stripped)
         IN IF stripped = <<>>
            THEN ScanHeader_SkipBlank(lines, i + 1, metadata, i + 1)
            ELSE IF match.matched
            THEN ScanHeader_SkipBlank(lines, i + 1,
                                      DictSet(metadata, match.key, match.value), i + 1)
            ELSE IF startswith(stripped, <<"/", "/">>) /\ metadata = EmptyDict
            THEN ScanHeader_SkipBlank(lines, i + 1, metadata, i + 1)
            ELSE [metadata |-> metadata, code_start |-> code_start]

RECURSIVE ScanHeader(_, _, _, _)
ScanHeader(lines, i, metadata, code_start) ==
    IF i >= Len(lines) THEN [metadata |-> metadata, code_start |-> code_start]
    ELSE LET stripped == strip(lines[i + 1])
             match == MatchMeta(stripped)
         IN IF stripped = <<>> /\ metadata = EmptyDict
            THEN ScanHeader(lines, i + 1, metadata, i + 1)
            ELSE IF match.matched
            THEN ScanHeader(lines, i + 1, DictSet(metadata, match.key, match.value), i + 1)
            ELSE IF startswith(stripped, <<"/", "/">>) /\ metadata = EmptyDict
            THEN ScanHeader(lines, i + 1, metadata, i + 1)
            ELSE [metadata |-> metadata, code_start |-> code_start]

\* while code_lines and not code_lines[0].strip(): code_lines.pop(0)
RECURSIVE TrimLeadingBlank(_)
TrimLeadingBlank(code_lines) ==
    IF code_lines # <<>> /\ strip(Head(code_lines)) = <<>>
    THEN TrimLeadingBlank(Tail(code_lines))
    ELSE code_lines

\* while code_lines and not code_lines[-1].strip(): code_lines.pop()
RECURSIVE TrimTrailingBlank(_)
TrimTrailingBlank(code_lines) ==
    IF code_lines # <<>> /\ strip(code_lines[Len(code_lines)]) = <<>>
    THEN TrimTrailingBlank(SubSeq(code_lines, 1, Len(code_lines) - 1))
    ELSE code_lines

KeyName == <<"n", "a", "m", "e">>
KeyCat == <<"c", "a", "t">>
KeyDesc == <<"d", "e", "s", "c">>
KeyNotes == <<"n", "o", "t", "e", "s">>
KeyTags == <<"t", "a", "g", "s">>
KeyFunctions == <<"f", "u", "n", "c", "t", "i", "o", "n", "s">>

\* required = ['name', 'cat', 'desc']
IdiomRequired == <<KeyName, KeyCat, KeyDesc>>

\* [f for f in required if f not in metadata]
MissingFields_FirstOnly(required, metadata) ==
    LET all == SelectSeq(required, LAMBDA f : ~DictHas(metadata, f))
    IN IF all = <<>> THEN <<>> ELSE <<Head(all)>>

MissingFields(required, metadata) == SelectSeq(required, LAMBDA f : ~DictHas(metadata, f))

None == [none |-> TRUE]

\* an optional value: metadata.get(key) is the value or None
Some(value) == [some |-> TRUE, v |-> value]
Nothing == [some |-> FALSE, v |-> <<>>]
MetaGet(metadata, key) ==
    IF DictHas(metadata, key) THEN Some(DictGet(metadata, key, <<>>)) ELSE Nothing

\* `if x:` for an optional string or list
Present(x) == x.some /\ x.v # <<>>

\* lines[code_start:]
CodeLinesFrom_SkipOne(lines, code_start) == SubSeq(lines, code_start + 2, Len(lines))

CodeLinesFrom(lines, code_start) == SubSeq(lines, code_start + 1, Len(lines))

\* parse_strudel_file(path) on the file's lines: the value returned and the
\* warning printed ("" when none, with the missing fields it names)
parse_strudel_file(lines) ==
    LET scan == ScanHeader(lines, 0, EmptyDict, 0)
        metadata == scan.metadata
        missing == MissingFields(IdiomRequired, metadata)
        code_lines == TrimTrailingBlank(TrimLeadingBlank(CodeLinesFrom(lines, scan.code_start)))
        code == join_nl(code_lines)
    IN IF missing # <<>>
       THEN [ret |-> None, warn |-> "missing required fields", missing |-> missing]
       ELSE IF code = <<>>
       THEN [ret |-> None, warn |-> "has no code", missing |-> <<>>]
       ELSE [ret |-> [none |-> FALSE,
                      name |-> DictGet(metadata, KeyName, <<>>),
                      cat |-> DictGet(metadata, KeyCat, <<>>),
                      desc |-> DictGet(metadata, KeyDesc, <<>>),
                      notes |-> MetaGet(metadata, KeyNotes),
                      tags |-> MetaGet(metadata, KeyTags),
                      functions |-> MetaGet(metadata, KeyFunctions),
                      code |-> code],
             warn |-> "", missing |-> <<>>]

(***************************************************************************)
(* One idiom file parsed: the lines of the file are drawn from IdiomLines. *)
(***************************************************************************)
MaxLines == 5

\* lines of the files of the directory compilers' inputs
LName == <<"/", "/", " ", "@", "n", "a", "m", "e", ":", " ", "a">>
LCat == <<"/", "/", " ", "@", "c", "a", "t", ":", " ", "c">>
LDesc == <<"/", "/", " ", "@", "d", "e", "s", "c", ":", " ", "d">>
LTags == <<"/", "/", " ", "@", "t", "a", "g", "s", ":", " ", "x", ",", ",", "y">>
LCode == <<"x">>

HeaderLines == {LName, LCat, LDesc, LTags, LCode, <<>>}

\* the lines an idiom file may hold (content.split('\n') gives at least one)
IdiomLines ==
    { <<"/", "/", " ", "@", "n", "a", "m", "e", ":", " ", "a">>,
      <<" ", "/", "/", "@", "N", "A", "M", "E", ":", " ", " ", "b", " ">>,
      <<"/", "/", " ", "@", "c", "a", "t", ":", " ", "c">>,
      <<"/", "/", " ", "@", "d", "e", "s", "c", ":", " ", "d", " ", "e">>,
      <<"/", "/", " ", "p">>,
      <<"/", "/", " ", "@", "c", "a", "t", ":">>,
      <<" ">>,
      <<" ", "x", " ">> }

IdiomFiles == SeqUpTo(IdiomLines, MaxLines) \ {<<>>}

ParserInit ==
    /\ merger = Idle /\ drums = Idle /\ compiler = Idle /\ yamlp = Idle /\ datagen = Idle
    /\ \E lines \in IdiomFiles :
          parser = [pc |-> "parse", kind |-> "idiom", lines |-> lines,
                    metadata |-> EmptyDict, result |-> None]

\* lines 41-113
ParseStrudelFile ==
    /\ parser.pc = "parse"
    /\ parser' = [parser EXCEPT !.pc = "done",
                      !.metadata = ScanHeader(parser.lines, 0, EmptyDict, 0).metadata,
                      !.result = parse_strudel_file(parser.lines)]
    /\ UNCHANGED <<merger, drums, compiler, yamlp, datagen>>

ParserNext == ParseStrudelFile

SpecParser == ParserInit /\ [][ParserNext]_vars

(***************************************************************************)
(* Claims about the header-comment parser (checked under SpecParser).      *)
(* The file's metadata block is described here by the shape of its lines,  *)
(* not by a scan.                                                          *)
(***************************************************************************)
SetMin(S) == CHOOSE x \in S : \A y \in S : x <= y
SetMax(S) == CHOOSE x \in S : \A y \in S : x >= y

IsBlank(l) == \A i \in 1..Len(l) : IsSpace(l[i])

\* l without the whitespace around it
Core(l) ==
    LET ink == {i \in 1..Len(l) : ~IsSpace(l[i])}
    IN IF ink = {} THEN <<>> ELSE SubSeq(l, SetMin(ink), SetMax(ink))

IsComment(l) == Len(Core(l)) >= 2 /\ Core(l)[1] = "/" /\ Core(l)[2] = "/"

\* l reads  // @key: value : the positions of its '@' and ':'
MetaShape(l, at, colon) ==
    LET t == Core(l)
    IN /\ IsComment(l)
       /\ 2 < at /\ at + 1 < colon /\ colon < Len(t)
       /\ \A k \in 3..(at - 1) : IsSpace(t[k])
       /\ t[at] = "@"
       /\ \A k \in (at + 1)..(colon - 1) : IsWord(t[k])
       /\ t[colon] = ":"

\* what each line reads as
LineShape[l \in IdiomLines \cup HeaderLines] ==
    LET t == Core(l)
        shapes == {ac \in (1..Len(l)) \X (1..Len(l)) : MetaShape(l, ac[1], ac[2])}
    IN IF shapes = {}
       THEN [meta |-> FALSE, key |-> <<>>, value |-> <<>>]
       ELSE LET pos == CHOOSE ac \in shapes : TRUE
            IN [meta |-> TRUE,
                key |-> [i \in 1..(pos[2] - pos[1] - 1) |-> LowerChar(t[pos[1] + i])],
                value |-> Core(SubSeq(t, pos[2] + 1, Len(t)))]

IsMeta(l) == LineShape[l].meta

\* the key a metadata line declares, in lower case
DeclaredKey(l) == LineShape[l].key

\* the value a metadata line declares, trimmed
DeclaredValue(l) == LineShape[l].value

\* the scan reaches a metadata line: only blank and comment lines before it
HasBlock(lines) ==
    \E i \in 1..Len(lines) :
        /\ IsMeta(lines[i])
        /\ \A j \in 1..(i - 1) : IsBlank(lines[j]) \/ IsComment(lines[j])

\* the metadata block: the first run of metadata lines, BlockFirst..BlockEnd-1
BlockFirst(lines) == SetMin({i \in 1..Len(lines) : IsMeta(lines[i])})
BlockEnd(lines) ==
    SetMin({j \in (BlockFirst(lines) + 1)..(Len(lines) + 1) :
               j = Len(lines) + 1 \/ ~IsMeta(lines[j])})
Block(lines) == BlockFirst(lines)..(BlockEnd(lines) - 1)

DeclaredInBlock(lines, key) == \E i \in Block(lines) : DeclaredKey(lines[i]) = key

\* the value of the last line of the block declaring key
BlockValue(lines, key) ==
    DeclaredValue(lines[SetMax({i \in Block(lines) : DeclaredKey(lines[i]) = key})])

\* lines from..Len without the fully blank lines at both ends
TrimmedFrom(lines, from) ==
    LET ink == {i \in from..Len(lines) : ~IsBlank(lines[i])}
    IN IF ink = {} THEN <<>> ELSE SubSeq(lines, SetMin(ink), SetMax(ink))

WellFormedIdiom(lines) ==
    /\ HasBlock(lines)
    /\ \A k \in 1..Len(IdiomRequired) : DeclaredInBlock(lines, IdiomRequired[k])
    /\ TrimmedFrom(lines, BlockEnd(lines)) # <<>>

\* C6: for a well-formed idiom file parse_strudel_file returns a record
\* whose name, cat and desc are the trimmed values of the last line of the
\* block declaring each key (case-insensitively) and whose code is the
\* lines after the block, blank lines at both ends removed, joined by
\* newlines.
C6_WellFormedParsed ==
    (parser.pc = "done" /\ WellFormedIdiom(parser.lines)) =>
        /\ parser.result.ret # None
        /\ parser.result.warn = ""
        /\ parser.result.ret.name = BlockValue(parser.lines, KeyName)
        /\ parser.result.ret.cat = BlockValue(parser.lines, KeyCat)
        /\ parser.result.ret.desc = BlockValue(parser.lines, KeyDesc)
        /\ parser.result.ret.code
             = join_nl(TrimmedFrom(parser.lines, BlockEnd(parser.lines)))

\* a well-formed file parsed whose block declares name twice, the second
\* time in upper case with untrimmed whitespace
C6_Witness ==
    /\ parser.pc = "done"
    /\ WellFormedIdiom(parser.lines)
    /\ Cardinality({i \in Block(parser.lines) : DeclaredKey(parser.lines[i]) = KeyName}) = 2
    /\ parser.result.ret # None
    /\ parser.result.ret.name = <<"b">>

\* the block is ended by a plain comment line
EndedByComment(lines) ==
    /\ HasBlock(lines)
    /\ BlockEnd(lines) <= Len(lines)
    /\ IsComment(lines[BlockEnd(lines)])

AllRequiredInBlock(lines) ==
    \A k \in 1..Len(IdiomRequired) : DeclaredInBlock(lines, IdiomRequired[k])

\* C8 as stated: the plain comment line ending the block is dropped, the
\* code body being made of the lines after it.
C8_AsStated ==
    (parser.pc = "done" /\ EndedByComment(parser.lines) /\ AllRequiredInBlock(parser.lines)) =>
        LET body == TrimmedFrom(parser.lines, BlockEnd(parser.lines) + 1)
        IN IF body = <<>> THEN parser.result.ret = None
           ELSE parser.result.ret # None /\ parser.result.ret.code = join_nl(body)

\* C8 (amended): a plain comment line met after a metadata key has been
\* seen ends the metadata block (no later line adds to the metadata) and
\* is kept: it is the first line of the record's code body.
C8_CommentEndsBlockAndIsKept ==
    (parser.pc = "done" /\ EndedByComment(parser.lines)) =>
        IF AllRequiredInBlock(parser.lines)
        THEN /\ parser.result.ret # None
             /\ parser.result.ret.name = BlockValue(parser.lines, KeyName)
             /\ parser.result.ret.cat = BlockValue(parser.lines, KeyCat)
             /\ parser.result.ret.desc = BlockValue(parser.lines, KeyDesc)
             /\ parser.result.ret.code
                  = join_nl(TrimmedFrom(parser.lines, BlockEnd(parser.lines)))
             /\ startswith(parser.result.ret.code, parser.lines[BlockEnd(parser.lines)])
        ELSE /\ parser.result.ret = None
             /\ Range(parser.result.missing)
                  = {IdiomRequired[k] : k \in {k \in 1..Len(IdiomRequired) :
                                                  ~DeclaredInBlock(parser.lines, IdiomRequired[k])}}

\* a record parsed from a file whose block a plain comment ends, with a
\* metadata line after that comment
C8_Witness ==
    /\ parser.pc = "done"
    /\ EndedByComment(parser.lines)
    /\ parser.result.ret # None
    /\ \E j \in (BlockEnd(parser.lines) + 1)..Len(parser.lines) : IsMeta(parser.lines[j])

(***************************************************************************)
(* Snippet header parser: parse_snippet_file of                            *)
(* scripts/generate-snippets.py                                            *)
(***************************************************************************)
\* the header scan (lines 48-69): the metadata dict when the loop ends
RECURSIVE ScanSnippetHeader(_, _)
ScanSnippetHeader(lines, metadata) ==
    IF lines = <<>> THEN metadata
    ELSE LET stripped == strip(Head(lines))
             match == MatchMeta(stripped)
         IN IF stripped = <<>> /\ metadata = EmptyDict
            THEN ScanSnippetHeader(Tail(lines), metadata)
            ELSE IF match.matched
            THEN ScanSnippetHeader(Tail(lines), DictSet(metadata, match.key, match.value))
            ELSE IF startswith(stripped, <<"/", "/">>) /\ metadata = EmptyDict
            THEN ScanSnippetHeader(Tail(lines), metadata)
            ELSE metadata

\* s.split(','): the pieces of s between its commas
RECURSIVE split_comma(_, _)
split_comma(s, piece) ==
    IF s = <<>> THEN <<piece>>
    ELSE IF Head(s) = "," THEN <<piece>> \o split_comma(Tail(s), <<>>)
    ELSE split_comma(Tail(s), Append(piece, Head(s)))

\* [t.strip() for t in value.split(',')]
StripEach(value) ==
    LET parts == split_comma(value, <<>>)
    IN [i \in 1..Len(parts) |-> strip(parts[i])]

\* [t.strip() for t in value.split(',') if t.strip()]
StripEachNonEmpty(value) == SelectSeq(StripEach(value), LAMBDA t : t # <<>>)

\* required = ['name', 'desc']
SnippetRequired == <<KeyName, KeyDesc>>

\* parse_snippet_file(path) on the file's name and lines
parse_snippet_file(filename, lines) ==
    LET metadata == ScanSnippetHeader(lines, EmptyDict)
        missing == MissingFields(SnippetRequired, metadata)
    IN IF missing # <<>>
       THEN [ret |-> None, warn |-> "missing required fields", missing |-> missing]
       ELSE [ret |-> [none |-> FALSE,
                      name |-> DictGet(metadata, KeyName, <<>>),
                      file |-> filename,
                      desc |-> DictGet(metadata, KeyDesc, <<>>),
                      tags |-> IF DictHas(metadata, KeyTags)
                               THEN Some(StripEachNonEmpty(DictGet(metadata, KeyTags, <<>>)))
                               ELSE Nothing],
             warn |-> "", missing |-> <<>>]

\* the compact record generate_snippets builds (lines 119-125)
SnippetRec(record) ==
    LET rec == << <<"name", record.name>>, <<"file", record.file>>, <<"desc", record.desc>> >>
    IN IF Present(record.tags)
       THEN DictSet(rec, "tags", record.tags.v)
       ELSE rec

\* the list generate_idioms emits for a declared list field (lines 151, 153)
IdiomList(value) == StripEach(value)

\* the compact record generate_idioms builds (lines 143-154)
IdiomRec(record) ==
    LET rec0 == << <<"name", record.name>>, <<"cat", record.cat>>, <<"desc", record.desc>> >>
        rec1 == IF Present(record.notes)
                THEN DictSet(rec0, "notes", record.notes.v) ELSE rec0
        rec2 == IF Present(record.tags)
                THEN DictSet(rec1, "tags", IdiomList(record.tags.v)) ELSE rec1
        rec3 == IF Present(record.functions)
                THEN DictSet(rec2, "functions", IdiomList(record.functions.v)) ELSE rec2
    IN DictSet(rec3, "code", record.code)

(***************************************************************************)
(* Anti-pattern parser: parse_yaml_file of                                 *)
(* scripts/generate-anti-patterns.py                                       *)
(*                                                                         *)
(* A YAML value is [t |-> type, s |-> text, n |-> number, b |-> boolean]: *)
(* a "str" has its characters in s, an "int" its value in n, a "bool" its  *)
(* value in b; a "list" or "dict" has its length in n and the text its     *)
(* str() shows between the brackets in s.                                  *)
(***************************************************************************)
YStr(chars) == [t |-> "str", s |-> chars, n |-> 0, b |-> FALSE]
YInt(n) == [t |-> "int", s |-> <<>>, n |-> n, b |-> FALSE]
YBool(b) == [t |-> "bool", s |-> <<>>, n |-> 0, b |-> b]
YNone == [t |-> "none", s |-> <<>>, n |-> 0, b |-> FALSE]
YList(n, inner) == [t |-> "list", s |-> inner, n |-> n, b |-> FALSE]
YDict(n, inner) == [t |-> "dict", s |-> inner, n |-> n, b |-> FALSE]

\* Python truthiness: bool(value)
Truthy_EmptyOnly(value) == ~(value.t \in {"str", "list"} /\ value.s = <<>> /\ value.n = 0)

Truthy(value) ==
    CASE value.t = "str" -> value.s # <<>>
      [] value.t = "int" -> value.n # 0
      [] value.t = "bool" -> value.b
      [] value.t = "none" -> FALSE
      [] value.t = "list" -> value.n # 0
      [] value.t = "dict" -> value.n # 0

Digits == <<"0", "1", "2", "3", "4", "5", "6", "7", "8", "9">>

\* str(n) of an int
RECURSIVE IntStr(_)
IntStr(n) ==
    IF n < 0 THEN <<"-">> \o IntStr(0 - n)
    ELSE IF n < 10 THEN <<Digits[n + 1]>>
    ELSE IntStr(n \div 10) \o <<Digits[(n % 10) + 1]>>

\* str(value) of a value that is no str
PyStr(value) ==
    CASE value.t = "int" -> IntStr(value.n)
      [] value.t = "bool" -> IF value.b THEN <<"T", "r", "u", "e">>
                             ELSE <<"F", "a", "l", "s", "e">>
      [] value.t = "none" -> <<"N", "o", "n", "e">>
      [] value.t = "list" -> <<"[">> \o value.s \o <<"]">>
      [] value.t = "dict" -> <<"{">> \o value.s \o <<"}">>
      [] value.t = "str" -> value.s

\* data[f].rstrip() if isinstance(data[f], str) else str(data[f])
FieldText(value) == IF value.t = "str" THEN rstrip(value.s) ELSE PyStr(value)

AntiRequired == <<"bad", "why", "good">>

\* [f for f in required if f not in data or not data[f]]
MissingOrFalsy(required, data) ==
    SelectSeq(required, LAMBDA f : ~DictHas(data, f) \/ ~Truthy(DictGet(data, f, YNone)))

\* filename.rsplit('.', 1)[0]
RECURSIVE RFindDot(_, _)
RFindDot(name, i) ==
    IF i < 1 THEN 0 ELSE IF name[i] = "." THEN i ELSE RFindDot(name, i - 1)

Stem(filename) ==
    LET k == RFindDot(filename, Len(filename))
    IN IF k = 0 THEN filename ELSE SubSeq(filename, 1, k - 1)

\* parse_yaml_file(path) on the file's name and what yaml.safe_load makes
\* of it: ok is FALSE when it raises YAMLError, mapping tells whether the
\* value loaded is a dict, data is that dict
parse_yaml_file(filename, loaded) ==
    IF ~loaded.ok
    THEN [ret |-> None, warn |-> "has invalid YAML", missing |-> <<>>]
    ELSE IF ~loaded.mapping
    THEN [ret |-> None, warn |-> "is not a YAML mapping", missing |-> <<>>]
    ELSE LET data == loaded.data
             missing == MissingOrFalsy(AntiRequired, data)
         IN IF missing # <<>>
            THEN [ret |-> None, warn |-> "missing required fields", missing |-> missing]
            ELSE [ret |-> [none |-> FALSE,
                           id |-> Stem(filename),
                           bad |-> FieldText(DictGet(data, "bad", YNone)),
                           why |-> FieldText(DictGet(data, "why", YNone)),
                           good |-> FieldText(DictGet(data, "good", YNone))],
                  warn |-> "", missing |-> <<>>]

\* the record generate_anti_patterns writes (line 107)
AntiRec(record) ==
    << <<"id", record.id>>, <<"bad", record.bad>>, <<"why", record.why>>,
       <<"good", record.good>> >>

(***************************************************************************)
(* Overlay merger: scripts/merge-mini-notation-rewrites.py                 *)
(*                                                                         *)
(* A line of the JSONL file is text.  The text of a JSON object is         *)
(* modelled by what distinguishes two texts of the same object: leading    *)
(* whitespace, whitespace after separators, \u escaping of non-ASCII       *)
(* characters, and the written sequence of key/value pairs (which may      *)
(* repeat a key).  A blank line holds whitespace only; a bad line is not   *)
(* valid JSON.                                                             *)
(***************************************************************************)
MaxMiniLines == 3

MiniPath == "data/mini-notation.jsonl"
RewritesPath == "data/mini-notation-rewrites.json"

BlankLine == [kind |-> "blank"]
BadLine == [kind |-> "bad"]
JsonText(pairs, lead, spaced, esc) ==
    [kind |-> "json", pairs |-> pairs, lead |-> lead, spaced |-> spaced, esc |-> esc]

\* The lines a mini-notation.jsonl may hold
MiniLines ==
    { BlankLine, BadLine,
      JsonText(<<<<"token", "~">>, <<"meaning", "rest">>>>, 0, FALSE, FALSE),
      JsonText(<<<<"token", "~">>, <<"meaning", "rest">>>>, 0, TRUE, FALSE),
      JsonText(<<<<"meaning", "group">>, <<"token", "[">>>>, 1, FALSE, FALSE),
      JsonText(<<<<"token", "[">>, <<"rewrites", "old">>, <<"meaning", "group">>>>, 0, FALSE, FALSE),
      JsonText(<<<<"meaning", "caf\\u00e9">>>>, 0, FALSE, TRUE),
      JsonText(<<<<"token", "x">>, <<"token", "~">>>>, 0, FALSE, FALSE) }

\* The contents a mini-notation-rewrites.json may hold: a JSON object with
\* or without the 'rewrites' key
RewritesDocs ==
    { EmptyDict,
      <<<<"rewrites", EmptyDict>>>>,
      <<<<"rewrites", <<<<"~", "alsoAccepts">>>>>>>>,
      <<<<"rewrites", <<<<"[", "p1">>, <<"~", "p2">>>>>>>>,
      <<<<"rewrites", <<<<"", "p0">>>>>>>> }

\* os.path.isfile
isfile_Always(file) == TRUE

isfile(file) == file.exists

\* json.loads of one stripped line: the object as a dict
json_loads(line) == DictFromPairs(EmptyDict, line.pairs)

\* json.dumps(rec, separators=(',', ':'), ensure_ascii=False)
json_dumps(rec) == JsonText(rec, 0, FALSE, FALSE)

\* `if line:` after line.strip()
NonBlank_SkipBad(lines) == SelectSeq(lines, LAMBDA l : l.kind = "json")

NonBlank(lines) == SelectSeq(lines, LAMBDA l : l.kind # "blank")

\* `if not rewrites:`
RewritesFalsy_Never(rewrites) == FALSE

RewritesFalsy(rewrites) == rewrites = EmptyDict

\* rec.get('token', '') in rewrites
TokenMatches_Meaning(rec, rewrites) == DictHas(rewrites, DictGet(rec, "meaning", ""))

TokenMatches(rec, rewrites) == DictHas(rewrites, DictGet(rec, "token", ""))

\* one iteration of the merge loop
MergeOne(rec, rewrites) ==
    IF TokenMatches(rec, rewrites)
    THEN DictSet(rec, "rewrites", DictGet(rewrites, DictGet(rec, "token", ""), ""))
    ELSE rec

\* the merge loop over all records
MergeRecords_DropUnmatched(records, rewrites) ==
    SelectSeq([i \in 1..Len(records) |-> MergeOne(records[i], rewrites)],
           LAMBDA r : TokenMatches(r, rewrites))

MergeRecords(records, rewrites) ==
    [i \in 1..Len(records) |-> MergeOne(records[i], rewrites)]

MergedCount(records, rewrites) ==
    Len(SelectSeq(records, LAMBDA r : TokenMatches(r, rewrites)))

MergerInit ==
    /\ drums = Idle /\ parser = Idle /\ compiler = Idle /\ yamlp = Idle /\ datagen = Idle
    /\ \E mini \in SeqUpTo(MiniLines, MaxMiniLines), doc \in RewritesDocs,
       me \in BOOLEAN, re \in BOOLEAN :
        merger = [ pc |-> "check",
                   mini_file |-> [exists |-> me, lines |-> IF me THEN mini ELSE <<>>],
                   rewrites_file |-> [exists |-> re, doc |-> IF re THEN doc ELSE EmptyDict],
                   orig |-> [exists |-> me, lines |-> IF me THEN mini ELSE <<>>],
                   rewrites |-> EmptyDict,
                   records |-> <<>>,
                   merged_count |-> 0,
                   opened_w |-> FALSE,
                   exit |-> -1,
                   stderr |-> "",
                   stdout |-> "" ]

\* lines 28-34: both paths must be files
MergeCheckFiles ==
    /\ merger.pc = "check"
    /\ merger' =
         IF ~isfile(merger.mini_file)
         THEN [merger EXCEPT !.pc = "exit", !.exit = 1, !.stderr = MiniPath]
         ELSE IF ~isfile(merger.rewrites_file)
         THEN [merger EXCEPT !.pc = "exit", !.exit = 1, !.stderr = RewritesPath]
         ELSE [merger EXCEPT !.pc = "load"]
    /\ UNCHANGED <<drums, parser, compiler, yamlp, datagen>>

\* lines 37-43: load the rewrites; nothing to do when there are none.
\* open() of a path that is no file raises, which ends the process with a
\* traceback and exit status 1.
MergeLoadRewrites ==
    /\ merger.pc = "load"
    /\ IF ~merger.rewrites_file.exists
       THEN merger' = [merger EXCEPT !.pc = "exit", !.exit = 1, !.stderr = "Traceback (most recent call last)"]
       ELSE LET rewrites == DictGet(merger.rewrites_file.doc, "rewrites", EmptyDict) IN
            IF RewritesFalsy(rewrites)
            THEN merger' = [merger EXCEPT !.pc = "exit", !.exit = 0, !.rewrites = rewrites,
                                          !.stdout = "No rewrites found in overlay file"]
            ELSE merger' = [merger EXCEPT !.pc = "read", !.rewrites = rewrites]
    /\ UNCHANGED <<drums, parser, compiler, yamlp, datagen>>

\* lines 46-51: read and parse every non-blank line; json.loads raises on a
\* line that is not JSON
MergeReadRecords ==
    /\ merger.pc = "read"
    /\ LET lines == NonBlank(merger.mini_file.lines) IN
       IF ~merger.mini_file.exists \/ \E i \in 1..Len(lines) : lines[i].kind = "bad"
       THEN merger' = [merger EXCEPT !.pc = "exit", !.exit = 1, !.stderr = "Traceback (most recent call last)"]
       ELSE merger' = [merger EXCEPT !.pc = "merge",
                          !.records = [i \in 1..Len(lines) |-> json_loads(lines[i])]]
    /\ UNCHANGED <<drums, parser, compiler, yamlp, datagen>>

\* lines 54-59
MergeRewrites ==
    /\ merger.pc = "merge"
    /\ merger' = [merger EXCEPT !.pc = "write",
                     !.records = MergeRecords(merger.records, merger.rewrites),
                     !.merged_count = MergedCount(merger.records, merger.rewrites)]
    /\ UNCHANGED <<drums, parser, compiler, yamlp, datagen>>

\* lines 62-66
MergeWriteBack ==
    /\ merger.pc = "write"
    /\ merger' = [merger EXCEPT !.pc = "exit", !.exit = 0, !.opened_w = TRUE,
                     !.mini_file = [exists |-> TRUE,
                                    lines |-> [i \in 1..Len(merger.records) |->
                                                  json_dumps(merger.records[i])]],
                     !.stdout = "Merged"]
    /\ UNCHANGED <<drums, parser, compiler, yamlp, datagen>>

MergerNext ==
    \/ MergeCheckFiles
    \/ MergeLoadRewrites
    \/ MergeReadRecords
    \/ MergeRewrites
    \/ MergeWriteBack

SpecMerger == MergerInit /\ [][MergerNext]_vars

(***************************************************************************)
(* Claims about the overlay merger (checked under SpecMerger)              *)
(***************************************************************************)
\* the run rewrote the target file and ended
MergeWritten == merger.pc = "exit" /\ merger.opened_w

\* the rewrites mapping of the rewrites document as given
GivenRewrites == DictGet(merger.rewrites_file.doc, "rewrites", EmptyDict)

\* C1 as stated: after a rewrite the file has as many lines as the input
\* file, line i holds the record of input line i, and a record changed
\* only if it has a 'token' whose value is a key of the rewrites mapping.
C1_AsStated ==
    MergeWritten =>
        LET o == merger.orig.lines
            n == merger.mini_file.lines
        IN /\ Len(n) = Len(o)
           /\ \A i \in 1..Len(o) :
                /\ o[i].kind = "json"
                /\ DictWithout(json_loads(n[i]), "rewrites")
                     = DictWithout(json_loads(o[i]), "rewrites")
                /\ json_loads(n[i]) # json_loads(o[i])
                     => /\ DictHas(json_loads(o[i]), "token")
                        /\ DictHas(GivenRewrites, DictGet(json_loads(o[i]), "token", ""))

\* C1 (amended): after a rewrite the file has as many lines as the input
\* file has non-blank lines, line i holds the record of the i-th non-blank
\* input line (same keys and values in the same order, 'rewrites' apart),
\* and a record changed only if its 'token' value, the empty string when
\* it has no 'token', is a key of the rewrites mapping.
C1_OrderPreserving ==
    MergeWritten =>
        LET o == NonBlank(merger.orig.lines)
            n == merger.mini_file.lines
        IN /\ Len(n) = Len(o)
           /\ \A i \in 1..Len(o) :
                /\ n[i].kind = "json"
                /\ DictWithout(json_loads(n[i]), "rewrites")
                     = DictWithout(json_loads(o[i]), "rewrites")
                /\ json_loads(n[i]) # json_loads(o[i])
                     => DictHas(GivenRewrites, DictGet(json_loads(o[i]), "token", ""))

\* a rewrite of a file with a blank line, a record that gained 'rewrites'
\* and a record that did not
C1_Witness ==
    /\ MergeWritten
    /\ \E i \in 1..Len(merger.orig.lines) : merger.orig.lines[i].kind = "blank"
    /\ LET o == NonBlank(merger.orig.lines)
           n == merger.mini_file.lines
       IN /\ Len(o) = Len(n)
          /\ \E i \in 1..Len(o) : json_loads(n[i]) # json_loads(o[i])
          /\ \E i \in 1..Len(o) : json_loads(n[i]) = json_loads(o[i])

\* C2: after a rewrite every line whose record matches no key of the
\* rewrites mapping is, as text, the line that was read.
C2_UnmatchedByteIdentical ==
    MergeWritten =>
        LET o == NonBlank(merger.orig.lines)
            n == merger.mini_file.lines
        IN \A i \in 1..Len(o) :
              ~DictHas(GivenRewrites, DictGet(json_loads(o[i]), "token", ""))
                 => i <= Len(n) /\ n[i] = o[i]

\* C3: with both files present and an empty or absent 'rewrites' mapping
\* the target file is never opened for writing, its content stays what it
\* was, and the run ends normally.
C3_EmptyRewritesNoRewrite ==
    (merger.orig.exists /\ merger.rewrites_file.exists /\ GivenRewrites = EmptyDict)
        => /\ ~merger.opened_w
           /\ merger.mini_file = merger.orig
           /\ merger.pc \in {"check", "load", "exit"}
           /\ merger.pc = "exit" => merger.exit = 0

\* a finished run with an empty mapping over a file that a rewrite would
\* have changed
C3_Witness ==
    /\ merger.pc = "exit"
    /\ merger.orig.exists /\ merger.rewrites_file.exists /\ GivenRewrites = EmptyDict
    /\ \E i \in 1..Len(merger.orig.lines) :
          /\ merger.orig.lines[i].kind = "json"
          /\ json_dumps(json_loads(merger.orig.lines[i])) # merger.orig.lines[i]

\* C4: with the target file or the rewrites document missing, the run ends
\* with a non-zero exit and an error naming a missing path, and the target
\* file is neither created nor rewritten.
C4_MissingInputAborts ==
    (~merger.orig.exists \/ ~merger.rewrites_file.exists)
        => /\ ~merger.opened_w
           /\ merger.mini_file = merger.orig
           /\ merger.pc \in {"check", "exit"}
           /\ merger.pc = "exit"
                => /\ merger.exit # 0
                   /\ \/ ~merger.orig.exists /\ merger.stderr = MiniPath
                      \/ ~merger.rewrites_file.exists /\ merger.stderr = RewritesPath

\* an aborted run whose target file exists (with lines) and whose rewrites
\* document is missing
C4_Witness ==
    /\ merger.pc = "exit"
    /\ merger.orig.exists /\ merger.orig.lines # <<>>
    /\ ~merger.rewrites_file.exists
    /\ merger.stderr = RewritesPath

\* the target file was there at the start, a non-blank line of it not JSON
CorruptTarget ==
    merger.orig.exists /\ \E i \in 1..Len(merger.orig.lines) : merger.orig.lines[i] = BadLine

\* the run ended with the target file never opened for writing and as it was
TargetUntouched == ~merger.opened_w /\ merger.mini_file = merger.orig

\* the overlay document is there and its 'rewrites' mapping is empty or absent
NothingToMerge == merger.rewrites_file.exists /\ GivenRewrites = EmptyDict

\* C13 as stated: with a line of the target file not valid JSON the run
\* fails, and the target file is never opened for writing nor changed.
C13_AsStated ==
    (merger.pc = "exit" /\ CorruptTarget) => merger.exit = 1 /\ TargetUntouched

\* C13 (amended): with a line of the target file not valid JSON the target
\* file is never opened for writing nor changed; the run fails, unless the
\* overlay document is there with an empty or absent 'rewrites' mapping:
\* then the target file is not read and the run ends as a no-op.
C13_CorruptTargetUntouched ==
    (merger.pc = "exit" /\ CorruptTarget) =>
        /\ TargetUntouched
        /\ IF NothingToMerge
           THEN merger.exit = 0 /\ merger.stdout = "No rewrites found in overlay file"
           ELSE merger.exit = 1 /\ merger.stderr # ""
        /\ merger.records = <<>>

\* a failed run on a target whose last line is not JSON, its first line a
\* record the overlay would have merged
C13_Witness ==
    /\ merger.pc = "exit" /\ merger.exit = 1
    /\ merger.stderr = "Traceback (most recent call last)"
    /\ merger.rewrites # EmptyDict
    /\ Len(merger.orig.lines) >= 2
    /\ merger.orig.lines[Len(merger.orig.lines)] = BadLine
    /\ merger.orig.lines[1].kind = "json"
    /\ TokenMatches(json_loads(merger.orig.lines[1]), merger.rewrites)
    /\ TargetUntouched

(***************************************************************************)
(* Directory compilers: generate_anti_patterns, generate_idioms and        *)
(* generate_snippets.                                                      *)
(*                                                                         *)
(* A directory is [exists, entries], entries a set of [name, content];     *)
(* file names are character sequences.                                     *)
(***************************************************************************)
MaxDirFiles == 2

Ascii(c) ==
    CASE c = "." -> 46 [] c = "a" -> 97 [] c = "b" -> 98 [] c = "c" -> 99
      [] c = "d" -> 100 [] c = "e" -> 101 [] c = "l" -> 108 [] c = "m" -> 109
      [] c = "r" -> 114 [] c = "s" -> 115 [] c = "t" -> 116 [] c = "u" -> 117
      [] c = "y" -> 121 [] OTHER -> 0

\* a < b for Python strings
RECURSIVE StrLess(_, _)
StrLess(a, b) ==
    IF b = <<>> THEN FALSE
    ELSE IF a = <<>> THEN TRUE
    ELSE IF Head(a) # Head(b) THEN Ascii(Head(a)) < Ascii(Head(b))
    ELSE StrLess(Tail(a), Tail(b))

\* sorted(names)
RECURSIVE sorted(_)
sorted(names) ==
    IF names = {} THEN <<>>
    ELSE LET first == CHOOSE n \in names : \A m \in names \ {n} : StrLess(n, m)
         IN <<first>> \o sorted(names \ {first})

endswith(s, suffix) ==
    Len(s) >= Len(suffix) /\ SubSeq(s, Len(s) - Len(suffix) + 1, Len(s)) = suffix

ExtStrudel == <<".", "s", "t", "r", "u", "d", "e", "l">>
ExtStr == <<".", "s", "t", "r">>
ExtYaml == <<".", "y", "a", "m", "l">>

\* the filter of the listing, per compiler
Matches_AnyFile(kind, f) == TRUE

Matches(kind, f) ==
    CASE kind = "anti" -> endswith(f, ExtYaml)
      [] kind = "idiom" -> endswith(f, ExtStrudel)
      [] kind = "snippet" -> endswith(f, ExtStrudel) \/ endswith(f, ExtStr)

\* sorted([f for f in os.listdir(src_dir) if f.endswith(...)])
ListFiles(kind, entries) == sorted({e.name : e \in {x \in entries : Matches(kind, x.name)}})

ContentOf(entries, f) == (CHOOSE e \in entries : e.name = f).content

FileNames ==
    { <<"a">> \o ExtStrudel, <<"a">> \o ExtStr, <<"b">> \o ExtStrudel,
      <<"b">> \o ExtYaml, <<"c">> \o ExtYaml }

\* contents of the files of an idiom or snippet directory
HeaderFiles ==
    { <<LName, LCat, LDesc, <<>>, LCode, <<>>>>,
      <<LName, LCat, LDesc, LTags, LCode>>,
      <<LName, LDesc, LCode>>,
      <<LName, LCat, LCode>>,
      <<LName, LCat, LDesc>>,
      <<LCode, LName, LCat, LDesc>> }

Loaded(data) == [ok |-> TRUE, mapping |-> TRUE, data |-> data]

\* what yaml.safe_load makes of the files of an anti-pattern directory
YamlFiles ==
    { Loaded(<< <<"bad", YStr(<<"x", "\n">>)>>, <<"why", YStr(<<"w">>)>>,
                <<"good", YStr(<<"g">>)>> >>),
      Loaded(<< <<"bad", YStr(<<"x">>)>>, <<"good", YStr(<<"g">>)>> >>),
      Loaded(<< <<"bad", YStr(<<>>)>>, <<"why", YStr(<<"w">>)>>,
                <<"good", YList(0, <<>>)>> >>),
      Loaded(<<>>),
      [ok |-> TRUE, mapping |-> FALSE, data |-> <<>>],
      [ok |-> FALSE, mapping |-> FALSE, data |-> <<>>] }

ContentsOf(kind) == IF kind = "anti" THEN YamlFiles ELSE HeaderFiles

\* directories of at most MaxDirFiles files
Directories(kind) ==
    UNION { {{[name |-> n, content |-> c[n]] : n \in names} : c \in [names -> ContentsOf(kind)]} :
              names \in {ns \in SUBSET FileNames : Cardinality(ns) <= MaxDirFiles} }

NewCompiler(kind, src_exists, entries, out_file) ==
    [ pc |-> "check", kind |-> kind,
      src_dir |-> [exists |-> src_exists, entries |-> entries],
      src_orig |-> [exists |-> src_exists, entries |-> entries],
      out_file |-> out_file, out_orig |-> out_file,
      files |-> <<>>, idx |-> 1, count |-> 0,
      out_src |-> <<>>, warnings |-> <<>>, stdout |-> <<>>, returned |-> -1 ]

OldOutFiles == { [exists |-> FALSE, lines |-> <<>>], [exists |-> TRUE, lines |-> <<"old">>] }

CompilerInit ==
    /\ merger = Idle /\ drums = Idle /\ parser = Idle /\ yamlp = Idle /\ datagen = Idle
    /\ \E kind \in {"anti", "idiom", "snippet"}, src_exists \in BOOLEAN,
          out_file \in OldOutFiles :
          \E entries \in (IF src_exists THEN Directories(kind) ELSE {{}}) :
             compiler = NewCompiler(kind, src_exists, entries, out_file)

\* os.makedirs(src_dir, exist_ok=True)
makedirs(dir) == IF dir.exists THEN dir ELSE [exists |-> TRUE, entries |-> {}]

\* `if not os.path.isdir(src_dir)`: 'Creating src_dir/' is printed, the
\* directory is made and 0 returned
CompileCheckDir ==
    /\ compiler.pc = "check"
    /\ IF ~compiler.src_dir.exists
       THEN compiler' = [compiler EXCEPT !.pc = "done", !.returned = 0,
                                         !.stdout = Append(@, "Creating"),
                                         !.src_dir = makedirs(@)]
       ELSE compiler' = [compiler EXCEPT !.pc = "list"]
    /\ UNCHANGED <<merger, drums, parser, yamlp, datagen>>

\* the listing; `if not files: return 0`
CompileListFiles ==
    /\ compiler.pc = "list"
    /\ LET files == ListFiles(compiler.kind, compiler.src_dir.entries)
       IN IF files = <<>>
          THEN compiler' = [compiler EXCEPT !.pc = "done", !.returned = 0,
                                            !.stdout = Append(@, "No files found")]
          ELSE compiler' = [compiler EXCEPT !.pc = "open", !.files = files]
    /\ UNCHANGED <<merger, drums, parser, yamlp, datagen>>

\* count = 0; with open(out_path, 'w') as out
CompileOpenOut ==
    /\ compiler.pc = "open"
    /\ compiler' = [compiler EXCEPT !.pc = "loop", !.count = 0, !.idx = 1,
                                    !.out_file = [exists |-> TRUE, lines |-> <<>>]]
    /\ UNCHANGED <<merger, drums, parser, yamlp, datagen>>

\* the parser and the record builder of each compiler, on file f
CompileOne(kind, f, content) ==
    CASE kind = "anti" ->
           LET r == parse_yaml_file(f, content)
           IN [r EXCEPT !.ret = IF r.ret = None THEN None
                                ELSE [none |-> FALSE, line |-> json_dumps(AntiRec(r.ret))]]
      [] kind = "idiom" ->
           LET r == parse_strudel_file(content)
           IN [r EXCEPT !.ret = IF r.ret = None THEN None
                                ELSE [none |-> FALSE, line |-> json_dumps(IdiomRec(r.ret))]]
      [] kind = "snippet" ->
           LET r == parse_snippet_file(f, content)
           IN [r EXCEPT !.ret = IF r.ret = None THEN None
                                ELSE [none |-> FALSE, line |-> json_dumps(SnippetRec(r.ret))]]

\* one iteration of `for filename in files`
CompileFile ==
    /\ compiler.pc = "loop"
    /\ compiler.idx <= Len(compiler.files)
    /\ LET f == compiler.files[compiler.idx]
           r == CompileOne(compiler.kind, f, ContentOf(compiler.src_dir.entries, f))
           warned == IF r.warn = "" THEN compiler.warnings
                     ELSE Append(compiler.warnings,
                                 [file |-> f, warn |-> r.warn, missing |-> r.missing])
       IN IF r.ret = None
          THEN compiler' = [compiler EXCEPT !.idx = @ + 1, !.warnings = warned]
          ELSE compiler' = [compiler EXCEPT !.idx = @ + 1, !.warnings = warned,
                               !.count = @ + 1,
                               !.out_file.lines =
                                   Append(@, r.ret.line),
                               !.out_src = Append(@, f)]
    /\ UNCHANGED <<merger, drums, parser, yamlp, datagen>>

\* return count
CompileReturn ==
    /\ compiler.pc = "loop"
    /\ compiler.idx > Len(compiler.files)
    /\ compiler' = [compiler EXCEPT !.pc = "done", !.returned = compiler.count]
    /\ UNCHANGED <<merger, drums, parser, yamlp, datagen>>

CompilerNext ==
    \/ CompileCheckDir
    \/ CompileListFiles
    \/ CompileOpenOut
    \/ CompileFile
    \/ CompileReturn

SpecCompiler == CompilerInit /\ [][CompilerNext]_vars

(***************************************************************************)
(* Claims about the directory compilers (checked under SpecCompiler)       *)
(***************************************************************************)
\* the required header fields file content does not declare in its block
UndeclaredFields(required, lines) ==
    IF HasBlock(lines)
    THEN {required[k] : k \in {k \in 1..Len(required) : ~DeclaredInBlock(lines, required[k])}}
    ELSE Range(required)

\* the required fields a mapping document lacks or holds empty
EmptyFields(required, data) ==
    {required[k] : k \in {k \in 1..Len(required) :
        \A i \in 1..Len(data) :
            data[i][1] = required[k]
               => data[i][2].t \in {"str", "list"} /\ data[i][2].s = <<>> /\ data[i][2].n = 0}}

\* the required fields a source file of the compiler is missing
FieldsMissing(kind, content) ==
    CASE kind = "idiom" -> UndeclaredFields(IdiomRequired, content)
      [] kind = "snippet" -> UndeclaredFields(SnippetRequired, content)
      [] kind = "anti" -> IF content.ok /\ content.mapping
                          THEN EmptyFields(AntiRequired, content.data) ELSE {}

WarningsFor(f) == {i \in 1..Len(compiler.warnings) : compiler.warnings[i].file = f}

\* the compiler went through its files and returned
Compiled == compiler.pc = "done" /\ compiler.files # <<>>

\* C7: a source file missing required fields yields no record and one
\* warning naming the file and every missing field; the compiler goes on,
\* and the count returned and the lines written cover exactly the files
\* not rejected, in order.
C7_MissingFieldsRejected ==
    Compiled =>
        /\ \A k \in 1..Len(compiler.files) :
              LET f == compiler.files[k]
                  m == FieldsMissing(compiler.kind, ContentOf(compiler.src_dir.entries, f))
              IN m # {} =>
                   /\ f \notin Range(compiler.out_src)
                   /\ Cardinality(WarningsFor(f)) = 1
                   /\ \A i \in WarningsFor(f) :
                         /\ compiler.warnings[i].warn = "missing required fields"
                         /\ Range(compiler.warnings[i].missing) = m
        /\ compiler.returned = Len(compiler.out_file.lines)
        /\ compiler.out_src = SelectSeq(compiler.files, LAMBDA f : WarningsFor(f) = {})

\* a finished run that rejected a file missing two or more fields and wrote
\* the record of a later file
C7_Witness ==
    /\ Compiled
    /\ \E k \in 1..Len(compiler.files) :
          /\ Cardinality(FieldsMissing(compiler.kind,
                 ContentOf(compiler.src_dir.entries, compiler.files[k]))) >= 2
          /\ \E j \in (k + 1)..Len(compiler.files) :
                compiler.files[j] \in Range(compiler.out_src)
    /\ compiler.returned = 1

\* name ends with the characters of ext
HasExtension(name, ext) ==
    /\ Len(name) >= Len(ext)
    /\ \A i \in 1..Len(ext) : name[Len(name) - Len(ext) + i] = ext[i]

\* the files of the source directory, as found, that the compiler is for
MatchingFiles ==
    {e \in compiler.src_orig.entries :
        CASE compiler.kind = "anti" -> HasExtension(e.name, ExtYaml)
          [] compiler.kind = "idiom" -> HasExtension(e.name, ExtStrudel)
          [] compiler.kind = "snippet" ->
                HasExtension(e.name, ExtStrudel) \/ HasExtension(e.name, ExtStr)}

\* the compiler ended, its source directory there at the start
CompilerRan == compiler.pc = "done" /\ compiler.src_orig.exists

\* C12: run on an existing source directory, a directory compiler with no
\* matching file returns 0 and leaves the output file as it was, absent or
\* not; with a matching file it overwrites the output file, which then
\* holds as many lines as the count returned, none when every file was
\* rejected.
C12_OutputFile ==
    CompilerRan =>
        IF MatchingFiles = {}
        THEN /\ compiler.returned = 0
             /\ compiler.out_file = compiler.out_orig
        ELSE /\ compiler.out_file.exists
             /\ Len(compiler.out_file.lines) = compiler.returned
             /\ compiler.returned = Len(compiler.out_src)
             /\ compiler.returned <= Cardinality(MatchingFiles)
             /\ compiler.src_dir = compiler.src_orig

\* a run whose two matching files were both rejected, leaving the output
\* file that held a line empty
C12_Witness ==
    /\ CompilerRan
    /\ Cardinality(MatchingFiles) = 2
    /\ Len(compiler.warnings) = 2
    /\ compiler.out_orig.exists /\ compiler.out_orig.lines # <<>>
    /\ compiler.out_file = [exists |-> TRUE, lines |-> <<>>]
    /\ compiler.returned = 0

(***************************************************************************)
(* List fields: one idiom or snippet file whose header declares a list     *)
(* field with a text drawn from TagTexts, compiled by CompilerNext.        *)
(***************************************************************************)
MaxTagLen == 4

\* the text after '// @tags:' or '// @functions:'
TagTexts == SeqUpTo({"a", ",", " "}, MaxTagLen)

ListKeys(kind) == IF kind = "idiom" THEN {KeyTags, KeyFunctions} ELSE {KeyTags}

\* the file declaring list field key with text
ListFile(key, text) ==
    <<LName, LCat, LDesc, <<"/", "/", " ", "@">> \o key \o <<":">> \o text, LCode>>

ListsInit ==
    /\ merger = Idle /\ drums = Idle /\ parser = Idle /\ yamlp = Idle /\ datagen = Idle
    /\ \E kind \in {"idiom", "snippet"}, text \in TagTexts :
          \E key \in ListKeys(kind) :
             compiler = NewCompiler(kind, TRUE,
                            {[name |-> <<"a">> \o ExtStrudel, content |-> ListFile(key, text)]},
                            [exists |-> FALSE, lines |-> <<>>])

SpecLists == ListsInit /\ [][CompilerNext]_vars

\* the pieces of t between its commas, from position b + 1 on
RECURSIVE PiecesFrom(_, _)
PiecesFrom(t, b) ==
    LET next == SetMin({c \in (b + 1)..(Len(t) + 1) : c = Len(t) + 1 \/ t[c] = ","})
        piece == [i \in 1..(next - b - 1) |-> t[b + i]]
    IN IF next = Len(t) + 1 THEN <<piece>> ELSE <<piece>> \o PiecesFrom(t, next)

\* the list a declared text stands for: its pieces trimmed, empty ones dropped
DeclaredList(text) ==
    LET pieces == PiecesFrom(Core(text), 0)
    IN SelectSeq([i \in 1..Len(pieces) |-> Core(pieces[i])], LAMBDA e : e # <<>>)

KeyText(key) == IF key = KeyTags THEN "tags" ELSE "functions"

\* C9: the list emitted for a declared list field is the comma-split of the
\* metadata value, each element trimmed and every empty element dropped,
\* and the field is emitted only if that list is non-empty.
C9_ListFields ==
    (Compiled /\ Len(compiler.out_file.lines) = 1) =>
        \A key \in ListKeys(compiler.kind), text \in TagTexts :
            (\E e \in compiler.src_dir.entries : e.content = ListFile(key, text)) =>
                LET rec == json_loads(compiler.out_file.lines[1])
                IN IF DeclaredList(text) = <<>>
                   THEN ~DictHas(rec, KeyText(key))
                   ELSE /\ DictHas(rec, KeyText(key))
                        /\ DictGet(rec, KeyText(key), <<>>) = DeclaredList(text)

(***************************************************************************)
(* One anti-pattern document parsed: parse_yaml_file on a mapping whose    *)
(* required fields are absent or hold a value of YamlValues.               *)
(***************************************************************************)
YamlValues ==
    { YStr(<<>>), YStr(<<"x">>), YStr(<<"x", " ", "\n">>), YStr(<<" ">>),
      YInt(0), YInt(7), YInt(12), YInt(-3),
      YBool(FALSE), YBool(TRUE), YNone,
      YList(0, <<>>), YList(1, <<"'", "a", "'">>),
      YDict(0, <<>>), YDict(1, <<"'", "k", "'", ":", " ", "1">>) }

Absent == [t |-> "absent", s |-> <<>>, n |-> 0, b |-> FALSE]

\* the mapping holding the given values, absent ones left out
YamlDoc(bad, why, good) ==
    SelectSeq(<< <<"bad", bad>>, <<"why", why>>, <<"good", good>> >>,
              LAMBDA p : p[2] # Absent)

YamlInit ==
    /\ merger = Idle /\ drums = Idle /\ parser = Idle /\ compiler = Idle /\ datagen = Idle
    /\ \/ \E bad, why, good \in YamlValues \cup {Absent} :
             yamlp = [pc |-> "parse", loaded |-> Loaded(YamlDoc(bad, why, good)),
                      result |-> None]
       \/ \E ok \in BOOLEAN :
             yamlp = [pc |-> "parse", loaded |-> [ok |-> ok, mapping |-> FALSE, data |-> <<>>],
                      result |-> None]

YamlFileName == <<"r", "e", "s", "t", ".", "y", "a", "m", "l">>

\* lines 37-78
ParseYamlFile ==
    /\ yamlp.pc = "parse"
    /\ yamlp' = [yamlp EXCEPT !.pc = "done",
                              !.result = parse_yaml_file(YamlFileName, yamlp.loaded)]
    /\ UNCHANGED <<merger, drums, parser, compiler, datagen>>

YamlNext == ParseYamlFile

SpecYaml == YamlInit /\ [][YamlNext]_vars

\* the value of field f of the document parsed, Absent without one
GivenField(f) ==
    LET data == yamlp.loaded.data
    IN IF \E i \in 1..Len(data) : data[i][1] = f
       THEN data[CHOOSE i \in 1..Len(data) : data[i][1] = f][2]
       ELSE Absent

IsEmptyValue(v) == v.t \in {"str", "list"} /\ v.s = <<>> /\ v.n = 0

\* falsy in Python: the empty string, list and mapping, null, zero, false
IsFalsyValue(v) ==
    \/ v.t \in {"str", "list", "dict"} /\ v.s = <<>> /\ v.n = 0
    \/ v.t = "none"
    \/ v.t = "int" /\ v.n = 0
    \/ v.t = "bool" /\ ~v.b

RECURSIVE DecimalValue(_)
DecimalValue(chars) ==
    IF chars = <<>> THEN 0
    ELSE 10 * DecimalValue(SubSeq(chars, 1, Len(chars) - 1))
         + (CHOOSE d \in 0..9 : Digits[d + 1] = chars[Len(chars)])

IsDecimalOf(chars, n) ==
    LET digits == IF n < 0 THEN Tail(chars) ELSE chars
    IN /\ chars # <<>>
       /\ n < 0 => chars[1] = "-"
       /\ digits # <<>>
       /\ \A i \in 1..Len(digits) : digits[i] \in Range(Digits)
       /\ Len(digits) > 1 => digits[1] # "0"
       /\ DecimalValue(digits) = (IF n < 0 THEN 0 - n ELSE n)

\* text is what the record shows for value v: a string without its
\* trailing whitespace, another value in its string form
IsTextOf(text, v) ==
    CASE v.t = "str" ->
           /\ Len(text) <= Len(v.s)
           /\ text = SubSeq(v.s, 1, Len(text))
           /\ text # <<>> => ~IsSpace(text[Len(text)])
           /\ \A i \in (Len(text) + 1)..Len(v.s) : IsSpace(v.s[i])
      [] v.t = "int" -> IsDecimalOf(text, v.n)
      [] v.t = "bool" -> text = (IF v.b THEN <<"T", "r", "u", "e">>
                                 ELSE <<"F", "a", "l", "s", "e">>)
      [] v.t = "list" -> text = <<"[">> \o v.s \o <<"]">>
      [] v.t = "dict" -> text = <<"{">> \o v.s \o <<"}">>
      [] OTHER -> FALSE

YamlParsed == yamlp.pc = "done" /\ yamlp.loaded.ok /\ yamlp.loaded.mapping

Accepted ==
    /\ yamlp.result.ret # None
    /\ yamlp.result.warn = ""
    /\ IsTextOf(yamlp.result.ret.bad, GivenField("bad"))
    /\ IsTextOf(yamlp.result.ret.why, GivenField("why"))
    /\ IsTextOf(yamlp.result.ret.good, GivenField("good"))

RejectedFor(fields) ==
    /\ yamlp.result.ret = None
    /\ yamlp.result.warn = "missing required fields"
    /\ Range(yamlp.result.missing) = fields

\* C10 as stated: a required field is missing only when absent, an empty
\* string or an empty list; any other value, 0 and false included, is
\* accepted and shown as text.
C10_AsStated ==
    YamlParsed =>
        LET m == {f \in Range(AntiRequired) :
                     GivenField(f) = Absent \/ IsEmptyValue(GivenField(f))}
        IN IF m = {} THEN Accepted ELSE RejectedFor(m)

\* C10 (amended): a required field is missing when absent or falsy: an
\* empty string, list or mapping, null, zero or false.  Every other value
\* is accepted, a string shown without its trailing whitespace and any
\* other value in its string form.
C10_FalsyIsMissing ==
    YamlParsed =>
        LET m == {f \in Range(AntiRequired) :
                     GivenField(f) = Absent \/ IsFalsyValue(GivenField(f))}
        IN IF m = {} THEN Accepted ELSE RejectedFor(m)

\* a document rejected for a zero and a false, its third field being fine
C10_Witness ==
    /\ YamlParsed
    /\ GivenField("bad") = YInt(0)
    /\ GivenField("why") = YBool(FALSE)
    /\ GivenField("good") = YStr(<<"x", " ", "\n">>)
    /\ RejectedFor({"bad", "why"})

(***************************************************************************)
(* Category splitter: _write_drum_machines of scripts/generate-data.py     *)
(*                                                                         *)
(* Sound names and machine prefixes are character sequences.               *)
(***************************************************************************)
MaxNames == 2
MaxMachines == 2

\* sound names a category may list: one and two underscores, none at all
SoundNames ==
    { <<"A", "_", "b">>, <<"A", "_", "s", "_", "x">>, <<"B", "_", "b">>, <<"C">> }

\* machine prefixes a category may list
MachineNames == { <<"A">>, <<"B">>, <<"C">> }

\* the categories: 'names', 'machines' and 'sampleCounts' of the info dict
\* (an absent key reads as the empty list or dict); 'sampleCounts' records
\* a count for any subset of the sound names
DrumInfos ==
    { [names |-> n, machines |-> m,
       sampleCounts |-> SelectSeq(<< <<<<"A", "_", "b">>, 4>>,
                                     <<<<"A", "_", "s", "_", "x">>, 16>>,
                                     <<<<"B", "_", "b">>, 2>>,
                                     <<<<"C">>, 8>> >>,
                                  LAMBDA p : p[1] \in c)] :
        n \in SeqUpTo(SoundNames, MaxNames),
        m \in SeqUpTo(MachineNames, MaxMachines),
        c \in SUBSET SoundNames }

\* index of the first '_' of name, 0 when it has none
RECURSIVE FindUnderscore(_, _)
FindUnderscore(name, i) ==
    IF i > Len(name) THEN 0
    ELSE IF name[i] = "_" THEN i
    ELSE FindUnderscore(name, i + 1)

\* index of the last '_' of name, 0 when it has none
RECURSIVE RFindUnderscore(_, _)
RFindUnderscore(name, i) ==
    IF i < 1 THEN 0
    ELSE IF name[i] = "_" THEN i
    ELSE RFindUnderscore(name, i - 1)

\* name.rsplit('_', 1)[0]
MachineOf_RSplit(name) ==
    LET k == RFindUnderscore(name, Len(name))
    IN IF k = 0 THEN name ELSE SubSeq(name, 1, k - 1)

\* name.split('_', 1)[0]
MachineOf(name) ==
    LET k == FindUnderscore(name, 1)
    IN IF k = 0 THEN name ELSE SubSeq(name, 1, k - 1)

\* the loop building machine_sounds: machine -> {name: count}
RECURSIVE BuildMachineSounds(_, _, _)
BuildMachineSounds(machine_sounds, names, sample_counts) ==
    IF names = <<>> THEN machine_sounds
    ELSE LET name == Head(names)
             machine == MachineOf(name)
             sounds == DictGet(machine_sounds, machine, EmptyDict)
         IN BuildMachineSounds(
                DictSet(machine_sounds, machine,
                        DictSet(sounds, name, DictGet(sample_counts, name, 1))),
                Tail(names), sample_counts)

DrumsInit ==
    /\ merger = Idle /\ parser = Idle /\ compiler = Idle /\ yamlp = Idle /\ datagen = Idle
    /\ \E info \in DrumInfos :
          drums = [ pc |-> "build",
                    info |-> info,
                    machine_sounds |-> EmptyDict,
                    out |-> <<>>,
                    i |-> 1,
                    lines |-> 0,
                    returned |-> -1 ]

\* lines 105-117
DrumBuild ==
    /\ drums.pc = "build"
    /\ drums' = [drums EXCEPT !.pc = "header",
                    !.machine_sounds = BuildMachineSounds(EmptyDict, drums.info.names,
                                                          drums.info.sampleCounts)]
    /\ UNCHANGED <<merger, parser, compiler, yamlp, datagen>>

\* lines 120-127
DrumWriteHeader ==
    /\ drums.pc = "header"
    /\ drums' = [drums EXCEPT !.pc = "machines", !.lines = 1,
                    !.out = Append(@, [cat |-> "drumMachines", header |-> TRUE,
                                       machines |-> drums.info.machines])]
    /\ UNCHANGED <<merger, parser, compiler, yamlp, datagen>>

\* lines 128-137, one iteration
DrumWriteMachine ==
    /\ drums.pc = "machines"
    /\ drums.i <= Len(drums.info.machines)
    /\ LET machine == drums.info.machines[drums.i]
           sounds == DictGet(drums.machine_sounds, machine, EmptyDict)
       IN IF sounds # EmptyDict
          THEN drums' = [drums EXCEPT !.i = @ + 1, !.lines = @ + 1,
                            !.out = Append(@, [cat |-> "drumMachines", header |-> FALSE,
                                               machine |-> machine, sounds |-> sounds])]
          ELSE drums' = [drums EXCEPT !.i = @ + 1]
    /\ UNCHANGED <<merger, parser, compiler, yamlp, datagen>>

\* line 139
DrumReturn ==
    /\ drums.pc = "machines"
    /\ drums.i > Len(drums.info.machines)
    /\ drums' = [drums EXCEPT !.pc = "done", !.returned = drums.lines]
    /\ UNCHANGED <<merger, parser, compiler, yamlp, datagen>>

DrumsNext ==
    \/ DrumBuild
    \/ DrumWriteHeader
    \/ DrumWriteMachine
    \/ DrumReturn

SpecDrums == DrumsInit /\ [][DrumsNext]_vars

(***************************************************************************)
(* Claims about the category splitter (checked under SpecDrums)            *)
(***************************************************************************)
\* the per-machine records written
MachineRecords == SelectSeq(drums.out, LAMBDA r : ~r.header)

\* how many per-machine records hold name
RecordsHolding(name) ==
    Cardinality({j \in 1..Len(MachineRecords) : DictHas(MachineRecords[j].sounds, name)})

\* p is the part of name before its first '_' (all of it when it has none)
IsPrefixOfName(p, name) ==
    /\ Len(p) <= Len(name)
    /\ \A k \in 1..Len(p) : p[k] = name[k] /\ p[k] # "_"
    /\ Len(p) < Len(name) => name[Len(p) + 1] = "_"

\* the count the original mapping gives name: the recorded one, 1 without
HasRecordedCount(name) ==
    \E k \in 1..Len(drums.info.sampleCounts) : drums.info.sampleCounts[k][1] = name

OriginalCount(name) ==
    IF HasRecordedCount(name)
    THEN drums.info.sampleCounts[CHOOSE k \in 1..Len(drums.info.sampleCounts) :
                                    drums.info.sampleCounts[k][1] = name][2]
    ELSE 1

\* C5 as stated: whatever the lists are, every name of 'names' is in
\* exactly one per-machine record, with its count, and the records hold no
\* other name.
C5_AsStated ==
    drums.pc = "done" =>
        /\ \A name \in Range(drums.info.names) : RecordsHolding(name) = 1
        /\ \A j \in 1..Len(MachineRecords) :
              \A name \in DictKeys(MachineRecords[j].sounds) :
                 /\ name \in Range(drums.info.names)
                 /\ DictGet(MachineRecords[j].sounds, name, 0) = OriginalCount(name)

\* C5 (amended): the per-machine records hold only names of 'names', each
\* with its count, and hold a name once per occurrence of its prefix in
\* 'machines'; so the round trip holds exactly when 'machines' lists the
\* prefix of every name once.
C5_RoundTrip ==
    drums.pc = "done" =>
        /\ \A name \in Range(drums.info.names) :
              RecordsHolding(name)
                = Cardinality({k \in 1..Len(drums.info.machines) :
                                  IsPrefixOfName(drums.info.machines[k], name)})
        /\ \A j \in 1..Len(MachineRecords) :
              \A name \in DictKeys(MachineRecords[j].sounds) :
                 /\ name \in Range(drums.info.names)
                 /\ IsPrefixOfName(MachineRecords[j].machine, name)
                 /\ DictGet(MachineRecords[j].sounds, name, 0) = OriginalCount(name)
        /\ drums.returned = Len(drums.out)

\* a finished split into two machines' records that round-trips, one name
\* with two underscores, one count recorded and one defaulted
C5_Witness ==
    /\ drums.pc = "done"
    /\ Len(MachineRecords) = 2
    /\ <<"A", "_", "s", "_", "x">> \in Range(drums.info.names)
    /\ \A name \in Range(drums.info.names) : RecordsHolding(name) = 1
    /\ \E name \in Range(drums.info.names) : ~HasRecordedCount(name)
    /\ \E name \in Range(drums.info.names) : HasRecordedCount(name)

(***************************************************************************)
(* main of scripts/generate-data.py: the output directory is made, the     *)
(* three source documents are looked for, and the three generators run.    *)
(* The output directory maps each output file to "absent", "old" or "new". *)
(***************************************************************************)
Subs == <<"api/output/functions.json", "soundbank/output/sounds.json",
          "patterns/output/patterns.json">>

OutNames == {"functions.jsonl", "sounds.jsonl", "mini-notation.jsonl"}

NoOutDir == [exists |-> FALSE, files |-> [n \in OutNames |-> "absent"]]

\* the data/ directory before the run
OutDirs == {NoOutDir} \cup {[exists |-> TRUE, files |-> f] : f \in [OutNames -> {"absent", "old"}]}

\* os.makedirs(out_dir, exist_ok=True)
makedirs_out(dir) == [dir EXCEPT !.exists = TRUE]

\* with open(os.path.join(out_dir, name), 'w') as out: ...
WriteOut(dir, name) == [dir EXCEPT !.files[name] = "new"]

DataInit ==
    /\ merger = Idle /\ drums = Idle /\ parser = Idle /\ compiler = Idle /\ yamlp = Idle
    /\ \E docs \in [Range(Subs) -> BOOLEAN], out_dir \in OutDirs :
          datagen = [ pc |-> "makedirs", docs |-> docs,
                      out_dir |-> out_dir, out_orig |-> out_dir,
                      sub |-> 1, stderr |-> <<>>, exit |-> -1 ]

\* line 193
DataMakeOutDir ==
    /\ datagen.pc = "makedirs"
    /\ datagen' = [datagen EXCEPT !.pc = "validate", !.out_dir = makedirs_out(@)]
    /\ UNCHANGED <<merger, drums, parser, compiler, yamlp>>

\* lines 196-202, one iteration
DataValidate ==
    /\ datagen.pc = "validate"
    /\ datagen.sub <= Len(Subs)
    /\ IF ~datagen.docs[Subs[datagen.sub]]
       THEN datagen' = [datagen EXCEPT !.pc = "exit", !.exit = 1,
                           !.stderr = Append(@, [error |-> "missing", path |-> Subs[datagen.sub]])]
       ELSE datagen' = [datagen EXCEPT !.sub = @ + 1]
    /\ UNCHANGED <<merger, drums, parser, compiler, yamlp>>

\* line 208
DataFunctions ==
    /\ datagen.pc = "validate"
    /\ datagen.sub > Len(Subs)
    /\ datagen' = [datagen EXCEPT !.pc = "sounds",
                                  !.out_dir = WriteOut(@, "functions.jsonl")]
    /\ UNCHANGED <<merger, drums, parser, compiler, yamlp>>

\* line 211
DataSounds ==
    /\ datagen.pc = "sounds"
    /\ datagen' = [datagen EXCEPT !.pc = "mini", !.out_dir = WriteOut(@, "sounds.jsonl")]
    /\ UNCHANGED <<merger, drums, parser, compiler, yamlp>>

\* lines 214-225
DataMiniNotation ==
    /\ datagen.pc = "mini"
    /\ datagen' = [datagen EXCEPT !.pc = "exit", !.exit = 0,
                                  !.out_dir = WriteOut(@, "mini-notation.jsonl")]
    /\ UNCHANGED <<merger, drums, parser, compiler, yamlp>>

DataNext ==
    \/ DataMakeOutDir
    \/ DataValidate
    \/ DataFunctions
    \/ DataSounds
    \/ DataMiniNotation

(***************************************************************************)
(* The compiler steps: a directory compiler or generate-data's main        *)
(***************************************************************************)
StepsInit == CompilerInit \/ DataInit

StepsNext == CompilerNext \/ DataNext

SpecSteps == StepsInit /\ [][StepsNext]_vars

(***************************************************************************)
(* Claims about missing inputs (checked under SpecSteps)                   *)
(***************************************************************************)
\* a directory compiler ended, its source directory missing at the start
CompilerRanWithoutSource == compiler.pc = "done" /\ ~compiler.src_orig.exists

\* generate-data ended, one of its documents missing at the start
DataRanWithoutDocument ==
    datagen.pc = "exit" /\ \E k \in 1..Len(Subs) : ~datagen.docs[Subs[k]]

\* C11 (directory compilers): with the source directory missing the step
\* gives a diagnostic and leaves the filesystem as it found it
C11_CompilerLeavesFilesystem ==
    CompilerRanWithoutSource =>
        /\ compiler.stdout # <<>>
        /\ compiler.src_dir = compiler.src_orig
        /\ compiler.out_file = compiler.out_orig

\* C11 (generate-data): with a document missing the run exits with an
\* error naming the first missing path and leaves the filesystem as it
\* found it
C11_DataLeavesFilesystem ==
    DataRanWithoutDocument =>
        /\ datagen.exit = 1
        /\ \E k \in 1..Len(Subs) :
              /\ ~datagen.docs[Subs[k]]
              /\ \A j \in 1..(k - 1) : datagen.docs[Subs[j]]
              /\ datagen.stderr = <<[error |-> "missing", path |-> Subs[k]]>>
        /\ datagen.out_dir = datagen.out_orig

\* C11: whenever a required input directory or document of a compiler step
\* does not exist, the step aborts with a diagnostic naming the missing
\* path and writes or creates nothing on the filesystem.
C11_MissingInputAborts == C11_CompilerLeavesFilesystem /\ C11_DataLeavesFilesystem

(***************************************************************************)
(* The header scan of both parsers: one idiom or snippet file parsed, its  *)
(* lines drawn from ScanLines.                                             *)
(***************************************************************************)
MaxScanLines == 5

ScanLines ==
    { <<"/", "/", " ", "@", "n", "a", "m", "e", ":", " ", "a">>,
      <<" ", "/", "/", "@", "N", "A", "M", "E", ":", " ", " ", "b", " ">>,
      <<"/", "/", " ", "@", "c", "a", "t", ":", " ", "c">>,
      <<"/", "/", " ", "@", "d", "e", "s", "c", ":", " ", "d", " ", "e">>,
      <<"/", "/", " ", "p">>,
      <<" ">>,
      <<" ", "x", " ">> }

ScanFiles == SeqUpTo(ScanLines, MaxScanLines) \ {<<>>}

SnippetName == <<"a">> \o ExtStr

ScanInit ==
    /\ merger = Idle /\ drums = Idle /\ compiler = Idle /\ yamlp = Idle /\ datagen = Idle
    /\ \E lines \in ScanFiles, kind \in {"idiom", "snippet"} :
          parser = [pc |-> IF kind = "idiom" THEN "parse" ELSE "parse_snippet",
                    kind |-> kind, lines |-> lines,
                    metadata |-> EmptyDict, result |-> None]

\* generate-snippets.py lines 35-89
ParseSnippetFile ==
    /\ parser.pc = "parse_snippet"
    /\ parser' = [parser EXCEPT !.pc = "done",
                      !.metadata = ScanSnippetHeader(parser.lines, EmptyDict),
                      !.result = parse_snippet_file(SnippetName, parser.lines)]
    /\ UNCHANGED <<merger, drums, compiler, yamlp, datagen>>

ScanNext == ParseStrudelFile \/ ParseSnippetFile

SpecScan == ScanInit /\ [][ScanNext]_vars

(***************************************************************************)
(* Claims about the header scan (checked under SpecScan)                   *)
(***************************************************************************)
\* the metadata lines after the line that ended the block
LaterMeta(lines) == {j \in BlockEnd(lines)..Len(lines) : IsMeta(lines[j])}

\* C14: once a metadata key has been seen, the first line that is not a
\* '// @key: value' line ends the scan, a blank line included: the metadata
\* mapping holds the keys and values of the block's lines and of no later
\* line, and in an idiom file that gave a record every later
\* '// @key: value' line is a line of the body.
C14_ScanEndsAtFirstOtherLine ==
    parser.pc = "done" =>
        IF HasBlock(parser.lines)
        THEN /\ DictKeys(parser.metadata)
                  = {DeclaredKey(parser.lines[i]) : i \in Block(parser.lines)}
             /\ \A key \in DictKeys(parser.metadata) :
                   DictGet(parser.metadata, key, <<>>) = BlockValue(parser.lines, key)
             /\ (parser.kind = "idiom" /\ parser.result.ret # None) =>
                   LET body == TrimmedFrom(parser.lines, BlockEnd(parser.lines))
                   IN /\ parser.result.ret.code = join_nl(body)
                      /\ \A j \in LaterMeta(parser.lines) : parser.lines[j] \in Range(body)
        ELSE parser.metadata = EmptyDict

\* an idiom record parsed from a file whose block a blank line ends, a
\* second @name line after it: the name is the block's and the later line
\* is the body
C14_Witness ==
    /\ parser.pc = "done" /\ parser.kind = "idiom"
    /\ HasBlock(parser.lines)
    /\ BlockEnd(parser.lines) <= Len(parser.lines)
    /\ IsBlank(parser.lines[BlockEnd(parser.lines)])
    /\ \E j \in LaterMeta(parser.lines) : DeclaredKey(parser.lines[j]) = KeyName
    /\ parser.result.ret # None
    /\ parser.result.ret.name = <<"a">>
    /\ parser.result.ret.code = <<" ", "/", "/", "@", "N", "A", "M", "E", ":", " ", " ", "b", " ">>

====
